---- MODULE Spec2Model ----
(***************************************************************************)
(* Model of outliers_lib/find_outliers.py: three stateless detectors that  *)
(* split a DataFrame into (outliers, cleaned) on one numeric column.       *)
(*                                                                         *)
(* Numbers.  Floats are modelled by exact arithmetic on integers:          *)
(*   - feature values are integers;                                        *)
(*   - quantile probabilities are integers over Pct   (0.25 = 25/Pct);     *)
(*   - IQR / z-score multipliers are integers over MDen (1.5 = 3/MDen);    *)
(*   - np.log(v + 1) is the fixed-point table Ln (hundredths, rounded),    *)
(*     strictly increasing like the logarithm;                             *)
(*   - a bound is the record [nan, a, b, rn, rd, d] standing for           *)
(*         (a + b * sqrt(rn / rd)) / d                                     *)
(*     (b = 0 for the quantile-based bounds, sqrt(rn/rd) carries the       *)
(*     standard deviation), or for NaN when nan is TRUE.                   *)
(* Comparisons against NaN are FALSE, as in IEEE-754 / pandas.             *)
(*                                                                         *)
(* Line 80 of the source starts "def find_outliers_quantile" with a stray  *)
(* leading space, which Python rejects when the file is compiled; the      *)
(* model reads the three functions as the top-level functions they are     *)
(* written to be.                                                          *)
(***************************************************************************)
EXTENDS Integers, Sequences, FiniteSets

VARIABLES data, call, x, lower_bound, upper_bound, outliers, cleaned, result

vars == <<data, call, x, lower_bound, upper_bound, outliers, cleaned, result>>

\* ---------------------------------------------------------------- bounds
MaxLen == 3

\* denominators of the fixed-point parameters
Pct == 100
MDen == 2

\* feature values enumerated for the bounded datasets
Values == {-1, 0, 2}

\* multipliers left/right of the IQR and z-score detectors, in 1/MDen
Mults == {-3, 0, 2}

\* quantile probabilities left/right of the quantile detector, in 1/Pct
Probs == {-50, 0, 80, 100, 150}

\* the datasets of the worked examples, and two degenerate columns
Examples ==
    { <<1, 2, 3, 4, 5, 100>>,
      <<10, 12, 13, 14, 15, 16, 18, 100>>,
      <<7, 7, 7>>,
      <<7, 7, 7, 7, 9>> }

BoundedColumns == UNION { [1..n -> Values] : n \in 0..MaxLen }

Columns == BoundedColumns \cup Examples

\* ------------------------------------------------------------ DataFrame
\* a DataFrame is a sequence of rows; a row keeps its index label and the
\* value of the feature column
Frame(col) == [i \in 1..Len(col) |-> [index |-> i, feature |-> col[i]]]

\* data[feature]
Feature(df) == [i \in 1..Len(df) |-> df[i].feature]

\* round(100 * ln(k)) for k = 1..101
Ln ==
    << 0, 69, 110, 139, 161, 179, 195, 208, 220, 230, 240, 248, 256, 264,
       271, 277, 283, 289, 294, 300, 304, 309, 314, 318, 322, 326, 330, 333,
       337, 340, 343, 347, 350, 353, 356, 358, 361, 364, 366, 369, 371, 374,
       376, 378, 381, 383, 385, 387, 389, 391, 393, 395, 397, 399, 401, 403,
       404, 406, 408, 409, 411, 413, 414, 416, 417, 419, 420, 422, 423, 425,
       426, 428, 429, 430, 432, 433, 434, 436, 437, 438, 439, 441, 442, 443,
       444, 445, 447, 448, 449, 450, 451, 452, 453, 454, 455, 456, 457, 458,
       460, 461, 462 >>

\* np.log(col + 1), defined where col + 1 > 0
LogDomain(col) == \A i \in 1..Len(col) : col[i] + 1 \in DOMAIN Ln

Log1p(col) == [i \in 1..Len(col) |-> Ln[col[i] + 1]]

\* ------------------------------------------------------------- numbers
NaN == [nan |-> TRUE, a |-> 0, b |-> 0, rn |-> 0, rd |-> 1, d |-> 1]

Num(a, b, rn, rd, d) == [nan |-> FALSE, a |-> a, b |-> b, rn |-> rn, rd |-> rd, d |-> d]

\* a < b * sqrt(rn / rd), for integers a, b and rn >= 0, rd > 0
SqrtLess(a, b, rn, rd) ==
    IF b = 0 \/ rn = 0 THEN a < 0
    ELSE IF b > 0 THEN a < 0 \/ a * a * rd < b * b * rn
    ELSE a < 0 /\ a * a * rd > b * b * rn

\* v < bound and v > bound for a compared value v
Lt(v, bnd) == ~bnd.nan /\ SqrtLess(v * bnd.d - bnd.a, bnd.b, bnd.rn, bnd.rd)

Gt(v, bnd) == ~bnd.nan /\ SqrtLess(bnd.a - v * bnd.d, -bnd.b, bnd.rn, bnd.rd)

\* ------------------------------------------------------------ quantile
RECURSIVE Insert(_, _)
Insert(s, v) ==
    IF s = <<>> THEN <<v>>
    ELSE IF v <= Head(s) THEN <<v>> \o s
    ELSE <<Head(s)>> \o Insert(Tail(s), v)

RECURSIVE Sorted(_)
Sorted(col) == IF col = <<>> THEN <<>> ELSE Insert(Sorted(Tail(col)), Head(col))

\* variant: the range check with exclusive ends
ValidPercentile_exclusive(q) == 0 < q /\ q < Pct

\* Series.quantile rejects a probability outside [0, 1]
ValidPercentile(q) == 0 <= q /\ q <= Pct

\* variant: interpolation "lower" instead of "linear"
Quantile_lower(col, q) ==
    IF col = <<>> THEN NaN
    ELSE LET s == Sorted(col)
             i == ((Len(col) - 1) * q) \div Pct
         IN  Num(s[i + 1] * Pct, 0, 0, 1, Pct)

\* Series.quantile(q / Pct) with linear interpolation, as a number over Pct;
\* NaN on an empty column
Quantile(col, q) ==
    IF col = <<>> THEN NaN
    ELSE LET s == Sorted(col)
             h == (Len(col) - 1) * q
             i == h \div Pct
             f == h % Pct
         IN  IF f = 0 THEN Num(s[i + 1] * Pct, 0, 0, 1, Pct)
             ELSE Num(s[i + 1] * Pct + f * (s[i + 2] - s[i + 1]), 0, 0, 1, Pct)

\* ---------------------------------------------------------- mean and std
RECURSIVE Sum(_)
Sum(col) == IF col = <<>> THEN 0 ELSE Head(col) + Sum(Tail(col))

SumSq(col) == Sum([i \in 1..Len(col) |-> col[i] * col[i]])

\* Series.mean(): sum / n, NaN on an empty column
Mean(col) ==
    IF col = <<>> THEN NaN ELSE Num(Sum(col), 0, 0, 1, Len(col))

\* Series.std(): the sample standard deviation (ddof = 1),
\*   sqrt((n * sumsq - sum^2) / (n * (n - 1))) = sqrt(W * n / (n - 1)) / n,
\* NaN with fewer than two values
Std(col) ==
    LET n == Len(col)
        W == n * SumSq(col) - Sum(col) * Sum(col)
    IN  IF n < 2 THEN NaN ELSE Num(0, 1, W * n, n - 1, n)

\* ------------------------------------------------------ the three bounds
\* quartile_1 - (iqr * left), with iqr = quartile_3 - quartile_1
IqrLower(q1, q3, left) ==
    IF q1.nan \/ q3.nan THEN NaN
    ELSE Num(q1.a * MDen - (q3.a - q1.a) * left, 0, 0, 1, q1.d * MDen)

\* quartile_3 + (iqr * right)
IqrUpper(q1, q3, right) ==
    IF q1.nan \/ q3.nan THEN NaN
    ELSE Num(q3.a * MDen + (q3.a - q1.a) * right, 0, 0, 1, q3.d * MDen)

\* variant: the sign of the left term flipped
ZLower_plus(mu, sigma, left) ==
    IF mu.nan \/ sigma.nan THEN NaN
    ELSE Num(mu.a * MDen, left * sigma.b, sigma.rn, sigma.rd, mu.d * MDen)

\* mu - left * sigma   (mu and sigma share the denominator n)
ZLower(mu, sigma, left) ==
    IF mu.nan \/ sigma.nan THEN NaN
    ELSE Num(mu.a * MDen, -(left * sigma.b), sigma.rn, sigma.rd, mu.d * MDen)

\* mu + right * sigma
ZUpper(mu, sigma, right) ==
    IF mu.nan \/ sigma.nan THEN NaN
    ELSE Num(mu.a * MDen, right * sigma.b, sigma.rn, sigma.rd, mu.d * MDen)

\* ------------------------------------------------------------ partition
\* variant: non-strict comparisons in the outlier mask
OutlierMask_inclusive(col, lo, up) ==
    [i \in 1..Len(col) |-> \/ ~lo.nan /\ ~Gt(col[i], lo)
                           \/ ~up.nan /\ ~Lt(col[i], up)]

\* variant: the two comparisons joined by & instead of |
OutlierMask_and(col, lo, up) ==
    [i \in 1..Len(col) |-> Lt(col[i], lo) /\ Gt(col[i], up)]

\* (x < lower_bound) | (x > upper_bound)
OutlierMask(col, lo, up) ==
    [i \in 1..Len(col) |-> Lt(col[i], lo) \/ Gt(col[i], up)]

\* variant: non-strict comparisons in the cleaned mask
CleanedMask_inclusive(col, lo, up) ==
    [i \in 1..Len(col) |-> /\ ~lo.nan /\ ~Lt(col[i], lo)
                           /\ ~up.nan /\ ~Gt(col[i], up)]

\* (x > lower_bound) & (x < upper_bound)
CleanedMask(col, lo, up) ==
    [i \in 1..Len(col) |-> Gt(col[i], lo) /\ Lt(col[i], up)]

\* df[mask]: the rows whose mask is TRUE, in the order of df
RECURSIVE BoolIndexFrom(_, _, _)
BoolIndexFrom(df, mask, i) ==
    IF i > Len(df) THEN <<>>
    ELSE IF mask[i] THEN <<df[i]>> \o BoolIndexFrom(df, mask, i + 1)
    ELSE BoolIndexFrom(df, mask, i + 1)

BoolIndex(df, mask) == BoolIndexFrom(df, mask, 1)

\* variant: the log written back into the feature column of data
Transform_inplace(df, log_scale) ==
    LET c == IF log_scale THEN Log1p(Feature(df)) ELSE Feature(df)
    IN  [ x    |-> c,
          data |-> [i \in 1..Len(df) |-> [index |-> df[i].index, feature |-> c[i]]] ]

\* the optional log view of the feature column; data itself is not assigned
Transform(df, log_scale) ==
    [ x    |-> IF log_scale THEN Log1p(Feature(df)) ELSE Feature(df),
      data |-> df ]

\* variant: the compared column indexed instead of data
Partition_compared(df, col, lo, up) ==
    LET view == [i \in 1..Len(df) |-> [index |-> df[i].index, feature |-> col[i]]]
    IN  [ outliers |-> BoolIndex(view, OutlierMask(col, lo, up)),
          cleaned  |-> BoolIndex(view, CleanedMask(col, lo, up)) ]

\* outliers = data[...], cleaned = data[...]
Partition(df, col, lo, up) ==
    [ outliers |-> BoolIndex(df, OutlierMask(col, lo, up)),
      cleaned  |-> BoolIndex(df, CleanedMask(col, lo, up)) ]

\* --------------------------------------------------------------- state
NoCall == [fn |-> "none", left |-> 0, right |-> 0, log_scale |-> FALSE]

Call(fn, left, right, log_scale) ==
    [fn |-> fn, left |-> left, right |-> right, log_scale |-> log_scale]

Init ==
    /\ data \in { Frame(col) : col \in Columns }
    /\ call = NoCall
    /\ x = <<>>
    /\ lower_bound = NaN
    /\ upper_bound = NaN
    /\ outliers = <<>>
    /\ cleaned = <<>>
    /\ result = "none"

\* find_outliers_iqr(data, feature, left, right, log_scale)
find_outliers_iqr(left, right, log_scale) ==
    /\ log_scale => LogDomain(Feature(data))
    /\ LET t  == Transform(data, log_scale)
           q1 == Quantile(t.x, 25)
           q3 == Quantile(t.x, 75)
           lo == IqrLower(q1, q3, left)
           up == IqrUpper(q1, q3, right)
           p  == Partition(t.data, t.x, lo, up)
       IN  /\ data' = t.data
           /\ x' = t.x
           /\ lower_bound' = lo
           /\ upper_bound' = up
           /\ outliers' = p.outliers
           /\ cleaned' = p.cleaned
    /\ call' = Call("iqr", left, right, log_scale)
    /\ result' = "ok"

\* find_outliers_z_score(data, feature, left, right, log_scale)
find_outliers_z_score(left, right, log_scale) ==
    /\ log_scale => LogDomain(Feature(data))
    /\ LET t     == Transform(data, log_scale)
           mu    == Mean(t.x)
           sigma == Std(t.x)
           lo    == ZLower(mu, sigma, left)
           up    == ZUpper(mu, sigma, right)
           p     == Partition(t.data, t.x, lo, up)
       IN  /\ data' = t.data
           /\ x' = t.x
           /\ lower_bound' = lo
           /\ upper_bound' = up
           /\ outliers' = p.outliers
           /\ cleaned' = p.cleaned
    /\ call' = Call("z_score", left, right, log_scale)
    /\ result' = "ok"

\* find_outliers_quantile(data, feature, left, right): x.quantile raises
\* ValueError on a probability outside [0, 1], and nothing is returned
find_outliers_quantile(left, right) ==
    /\ x' = Feature(data)
    /\ IF ValidPercentile(left) /\ ValidPercentile(right)
       THEN LET lo == Quantile(Feature(data), left)
                up == Quantile(Feature(data), right)
                p  == Partition(data, Feature(data), lo, up)
            IN  /\ lower_bound' = lo
                /\ upper_bound' = up
                /\ outliers' = p.outliers
                /\ cleaned' = p.cleaned
                /\ result' = "ok"
       ELSE /\ lower_bound' = IF ValidPercentile(left)
                              THEN Quantile(Feature(data), left) ELSE NaN
            /\ upper_bound' = NaN
            /\ outliers' = <<>>
            /\ cleaned' = <<>>
            /\ result' = "ValueError"
    /\ call' = Call("quantile", left, right, FALSE)
    /\ UNCHANGED data

Next ==
    \/ \E left \in Mults, right \in Mults, log_scale \in BOOLEAN :
           find_outliers_iqr(left, right, log_scale)
    \/ \E left \in Mults, right \in Mults, log_scale \in BOOLEAN :
           find_outliers_z_score(left, right, log_scale)
    \/ \E left \in Probs, right \in Probs :
           find_outliers_quantile(left, right)

Spec == Init /\ [][Next]_vars

\* ====================================================== checked properties
\* helpers of the properties, written independently of the detectors
RowSet(df) == { df[i] : i \in 1..Len(df) }

Sign(n) == IF n < 0 THEN -1 ELSE IF n > 0 THEN 1 ELSE 0

\* how a compared value v stands to a bound: "lt", "eq", "gt", or "nan"
Cmp(v, bnd) ==
    IF bnd.nan THEN "nan"
    ELSE LET t  == v * bnd.d - bnd.a
             st == Sign(t)
             ss == IF bnd.rn = 0 THEN 0 ELSE Sign(bnd.b)
             l  == t * t * bnd.rd
             r  == bnd.b * bnd.b * bnd.rn
         IN  IF st # ss THEN (IF st < ss THEN "lt" ELSE "gt")
             ELSE IF st = 0 THEN "eq"
             ELSE IF l = r THEN "eq"
             ELSE IF (st > 0) = (l < r) THEN "lt" ELSE "gt"

\* how bound b1 stands to bound b2 (same radicand)
CmpBounds(b1, b2) ==
    IF b1.nan \/ b2.nan THEN "nan"
    ELSE Cmp(0, Num(b2.a * b1.d - b1.a * b2.d, b2.b * b1.d - b1.b * b2.d,
                    b2.rn, b2.rd, 1))

\* the bound is the rational num / den
IsRational(bnd, num, den) ==
    /\ ~bnd.nan
    /\ bnd.b = 0 \/ bnd.rn = 0
    /\ bnd.a * den = num * bnd.d

\* k-th smallest value of a column, by counting
OrderStat(col, k) ==
    CHOOSE v \in { col[i] : i \in 1..Len(col) } :
        /\ Cardinality({ i \in 1..Len(col) : col[i] < v }) < k
        /\ k <= Cardinality({ i \in 1..Len(col) : col[i] <= v })

\* numerator over Pct of the linear-interpolation quantile q / Pct
LinQuantile(col, q) ==
    LET h == (Len(col) - 1) * q
        i == h \div Pct
        f == h % Pct
    IN  OrderStat(col, i + 1) * Pct
        + (IF f = 0 THEN 0 ELSE f * (OrderStat(col, i + 2) - OrderStat(col, i + 1)))

IsOutlier(i) == data[i] \in RowSet(outliers)

IsCleaned(i) == data[i] \in RowSet(cleaned)

Rows == 1..Len(data)

\* the documented input domain of the latest call
InDomain ==
    \/ call.fn \in {"iqr", "z_score"} /\ call.left >= 0 /\ call.right >= 0
    \/ call.fn = "quantile" /\ 0 <= call.left /\ call.left < call.right /\ call.right <= Pct

C2_CleanedIsComplement ==
    (result = "ok" /\ InDomain) => \A i \in Rows : ~IsOutlier(i) => IsCleaned(i)

\* C3: for the IQR and z-score detectors, with data and log_scale fixed, a
\* call with multipliers at least as large as the previous call's returns a
\* subset of the previous call's outliers.
C3_Monotone ==
    [][ ( /\ call.fn \in {"iqr", "z_score"}
          /\ call'.fn = call.fn
          /\ call'.log_scale = call.log_scale
          /\ call.left <= call'.left
          /\ call.right <= call'.right
          /\ data' = data )
        => ( /\ RowSet(outliers') \subseteq RowSet(outliers)
             /\ Len(outliers') <= Len(outliers) ) ]_vars

C3_Witness ==
    /\ call.fn = "z_score" /\ InDomain
    /\ outliers # <<>>
    /\ ENABLED ( /\ \E l \in Mults, r \in Mults :
                        /\ l >= call.left /\ r > call.right
                        /\ find_outliers_z_score(l, r, call.log_scale)
                 /\ Len(outliers') < Len(outliers) )

\* C4: quantile detector on [1, 2, 3, 4, 5, 100] with left = 0.0, right = 0.8:
\* upper is the 80th percentile, the row 100 is in outliers, and the rows
\* 1, 2, 3 and 4 are all in cleaned.
C4_QuantileExample ==
    ( /\ Feature(data) = <<1, 2, 3, 4, 5, 100>>
      /\ call = Call("quantile", 0, 80, FALSE) )
    => ( /\ result = "ok"
         /\ IsRational(upper_bound, LinQuantile(Feature(data), 80), Pct)
         /\ IsOutlier(6)
         /\ \A i \in 1..4 : IsCleaned(i) )

\* C5: IQR detector: lower = Q1 - left * IQR and upper = Q3 + right * IQR with
\* Q1, Q3 the linear-interpolation quartiles of the compared column; on
\* [10, 12, 13, 14, 15, 16, 18, 100] with left = right = 1.0 and no log scale
\* the bounds are 9 and 20.25, outliers is exactly the row 100 and the other
\* seven rows are cleaned.
C5_IqrBounds ==
    /\ (call.fn = "iqr" /\ x # <<>>) =>
           LET Q1 == LinQuantile(x, 25)
               Q3 == LinQuantile(x, 75)
           IN  /\ result = "ok"
               /\ IsRational(lower_bound, Q1 * MDen - call.left * (Q3 - Q1), Pct * MDen)
               /\ IsRational(upper_bound, Q3 * MDen + call.right * (Q3 - Q1), Pct * MDen)
    /\ ( /\ Feature(data) = <<10, 12, 13, 14, 15, 16, 18, 100>>
         /\ call = Call("iqr", MDen, MDen, FALSE) )
       => ( /\ IsRational(lower_bound, 9, 1)
            /\ IsRational(upper_bound, 81, 4)
            /\ outliers = <<data[8]>>
            /\ cleaned = SubSeq(data, 1, 7) )

C5_Witness ==
    /\ Feature(data) = <<10, 12, 13, 14, 15, 16, 18, 100>>
    /\ call = Call("iqr", MDen, MDen, FALSE)
    /\ result = "ok"
    /\ Len(outliers) = 1

\* the compared column has zero IQR / zero standard deviation
ZeroIqr == x # <<>> /\ LinQuantile(x, 25) = LinQuantile(x, 75)

ZeroSigma == Len(x) >= 2 /\ \A i, j \in 1..Len(x) : x[i] = x[j]

ConstantColumn == \A i, j \in Rows : data[i].feature = data[j].feature

C7_RejectsInvalid ==
    ( /\ call.fn = "quantile"
      /\ data # <<>>
      /\ \/ call.left >= call.right
         \/ call.left < 0 \/ call.left > Pct
         \/ call.right < 0 \/ call.right > Pct )
    => result = "ValueError"

\* C7 (amended): the quantile detector fails with ValueError, returning no
\* pair, exactly when left or right is outside [0, 1]; with both inside
\* [0, 1] it returns normally, also when left >= right.
C7_RejectsOutOfRange ==
    call.fn = "quantile" =>
        /\ result = "ValueError" <=>
               (call.left < 0 \/ call.left > Pct \/ call.right < 0 \/ call.right > Pct)
        /\ result # "ValueError" => result = "ok"
        /\ result = "ValueError" => (outliers = <<>> /\ cleaned = <<>>)

C7_Witness ==
    /\ call.fn = "quantile"
    /\ data # <<>>
    /\ 0 <= call.left /\ call.left <= Pct
    /\ call.right > Pct
    /\ result = "ValueError"

\* sub holds rows of df, whole and unchanged, in the order of df
IsSubFrame(sub, df) ==
    /\ \A k \in 1..Len(sub) :
           /\ sub[k].index \in 1..Len(df)
           /\ sub[k] = df[sub[k].index]
    /\ \A k \in 1..(Len(sub) - 1) : sub[k].index < sub[k + 1].index

\* C8: with or without log_scale, every row of the returned outliers and
\* cleaned is a row of the input with its original (untransformed) values,
\* and the rows keep their relative order.
C8_OriginalRows ==
    [][ result' = "ok" => (IsSubFrame(outliers', data) /\ IsSubFrame(cleaned', data)) ]_vars

C8_Witness ==
    /\ result = "ok" /\ call.log_scale /\ InDomain
    /\ outliers # <<>>
    /\ cleaned # <<>>
    /\ \E k \in 1..Len(outliers) : x[outliers[k].index] # outliers[k].feature

\* C9: no call changes the dataset, and repeating a call with the same
\* detector and parameters returns the same outliers and cleaned.
C9_ReadOnlyAndRepeatable ==
    [][ /\ data' = data
        /\ call' = call =>
               (result' = result /\ outliers' = outliers /\ cleaned' = cleaned) ]_vars

C9_Witness ==
    /\ result = "ok" /\ call.log_scale /\ InDomain
    /\ outliers # <<>>
    /\ x # Feature(data)
    /\ ENABLED (Next /\ call' = call /\ outliers' = outliers)

\* lower is strictly greater than upper
Inverted == CmpBounds(lower_bound, upper_bound) = "gt"

\* C10: when the computed bounds are inverted the call still returns
\* normally, cleaned is empty and every row is in outliers, rows on a bound
\* included; the quantile detector with 1 >= left > right >= 0 on distinct
\* values is such a case.
C10_InvertedBounds ==
    /\ (call.fn # "none" /\ Inverted) =>
           /\ result = "ok"
           /\ cleaned = <<>>
           /\ \A i \in Rows : IsOutlier(i)
    /\ ( /\ call.fn = "quantile"
         /\ 0 <= call.right /\ call.right < call.left /\ call.left <= Pct
         /\ Len(x) >= 2
         /\ \A i, j \in 1..Len(x) : i # j => x[i] # x[j] )
       => Inverted

C10_Witness ==
    /\ result = "ok" /\ Inverted
    /\ call.fn = "quantile"
    /\ \E i \in Rows : Cmp(x[i], lower_bound) = "eq" /\ IsOutlier(i)

====
